---- MODULE Spec2Model ----
(***************************************************************************)
(* A model of playlab_api/client.py: the PlaylabApp client, its HTTP       *)
(* request helpers, and the loops that reassemble a streamed response      *)
(* from "data:" lines.                                                     *)
(*                                                                         *)
(* Text is a sequence of one-character strings, so that concatenation,     *)
(* prefixes and slices are what they are in the program.                   *)
(***************************************************************************)
EXTENDS Integers, Sequences, FiniteSets, TLC

\* ------------------------------------------------------------------ bounds

\* Lines one streaming call reads before the transport must end or fail.
MaxLines == 3
\* Lines each of the two interleaved calls reads (SpecPair).
MaxPairLines == 2

\* ------------------------------------------------------------- text helpers

Q == "\""

\* s[i:] of Python, i counted from 0
DropFirst(s, n) == IF n >= Len(s) THEN <<>> ELSE SubSeq(s, n + 1, Len(s))

\* str.startswith
StartsWith(s, p) == Len(s) >= Len(p) /\ SubSeq(s, 1, Len(p)) = p

RECURSIVE LStrip(_)
LStrip(s) == IF s # <<>> /\ Head(s) = " " THEN LStrip(Tail(s)) ELSE s

RECURSIVE RStrip(_)
RStrip(s) == IF s # <<>> /\ s[Len(s)] = " " THEN RStrip(SubSeq(s, 1, Len(s) - 1)) ELSE s

Trim(s) == RStrip(LStrip(s))

\* index of the first occurrence of ch in s at or after position i, 0 if none
RECURSIVE IndexFrom(_, _, _)
IndexFrom(s, ch, i) ==
    IF i > Len(s) THEN 0
    ELSE IF s[i] = ch THEN i
    ELSE IndexFrom(s, ch, i + 1)

\* ------------------------------------------------------------- JSON values

JNull == [t |-> "null"]
JNum(n) == [t |-> "num", n |-> n]
JStr(s) == [t |-> "str", s |-> s]
JList(n) == [t |-> "list", n |-> n]
\* an object with no member, or with the one member key: val
JEmptyObj == [t |-> "obj", keys |-> {}]
JObj(key, val) == [t |-> "obj", keys |-> {key}, val |-> val]

Digits == {"0", "5"}
DigitValue(c) == IF c = "0" THEN 0 ELSE 5

JsonFail == [ok |-> FALSE]
JsonOk(v) == [ok |-> TRUE, v |-> v]

\* json.loads on the fragment of JSON the modelled lines are written in:
\* null, a one-digit number, a string without escapes, the empty list, and an
\* object with at most one member; white space around every token.  Any other
\* text is undecodable (json.JSONDecodeError).
RECURSIVE JsonLoads(_)
JsonLoads(text) ==
    LET s == Trim(text)
        n == Len(s)
    IN  IF n = 0 THEN JsonFail
        ELSE IF s = <<"n", "u", "l", "l">> THEN JsonOk(JNull)
        ELSE IF n = 1 /\ s[1] \in Digits THEN JsonOk(JNum(DigitValue(s[1])))
        ELSE IF s[1] = Q THEN
            IF n >= 2 /\ IndexFrom(s, Q, 2) = n
            THEN JsonOk(JStr(SubSeq(s, 2, n - 1)))
            ELSE JsonFail
        ELSE IF s[1] = "[" THEN
            IF s[n] = "]" /\ n >= 2 /\ Trim(SubSeq(s, 2, n - 1)) = <<>>
            THEN JsonOk(JList(0))
            ELSE JsonFail
        ELSE IF s[1] = "{" THEN
            IF n < 2 \/ s[n] # "}" THEN JsonFail
            ELSE LET inner == Trim(SubSeq(s, 2, n - 1))
                     m == Len(inner)
                     close == IndexFrom(inner, Q, 2)
                 IN  IF m = 0 THEN JsonOk(JEmptyObj)
                     ELSE IF inner[1] # Q \/ close = 0 THEN JsonFail
                     ELSE LET key == SubSeq(inner, 2, close - 1)
                              rest == LStrip(DropFirst(inner, close))
                          IN  IF rest = <<>> \/ rest[1] # ":" THEN JsonFail
                              ELSE LET val == JsonLoads(DropFirst(rest, 1))
                                   IN  IF val.ok THEN JsonOk(JObj(key, val.v))
                                       ELSE JsonFail
        ELSE JsonFail

\* Truthy as "is not None": an empty string counts as a value
Truthy_NotNone(v) == v.t # "null"

\* bool(value): Python's truth of a decoded JSON value
Truthy(v) ==
    CASE v.t = "null" -> FALSE
      [] v.t = "num" -> v.n # 0
      [] v.t = "str" -> v.s # <<>>
      [] v.t = "list" -> v.n # 0
      [] v.t = "obj" -> v.keys # {}

DeltaKey == <<"d", "e", "l", "t", "a">>

\* dict.get(key): the member's value, None when the key is absent
DictGet(obj, key) == IF key \in obj.keys THEN obj.val ELSE JNull

\* --------------------------------------------------------------- wire lines

\* One line of the response body as iter_lines yields it: bytes.  utf8 is
\* whether the bytes decode as UTF-8, s the text they decode to.
Line(s) == [utf8 |-> TRUE, s |-> s]
BadBytes == [utf8 |-> FALSE, s |-> <<"?">>]

DataPrefix == <<"d", "a", "t", "a", ":">>
Data(rest) == Line(DataPrefix \o rest)
\* {"delta": <val>}
DeltaObj(val) == <<"{", Q>> \o <<"d", "e", "l", "t", "a">> \o <<Q, ":", " ">> \o val \o <<"}">>

L_blank == Line(<<>>)
L_event == Line(<<"e", "v", "e", "n", "t", ":", "x">>)
\* a data line cut short: data: {"delta": "a
L_truncated == Data(<<" ", "{", Q>> \o <<"d", "e", "l", "t", "a">> \o <<Q, ":", " ", Q, "a">>)
L_number == Data(<<" ", "5">>)
L_emptyobj == Data(<<" ", "{", "}">>)
L_delta_empty == Data(<<" ">> \o DeltaObj(<<Q, Q>>))
L_delta_a == Data(<<" ">> \o DeltaObj(<<Q, "a", Q>>))
L_delta_bc == Data(DeltaObj(<<Q, "b", "c", Q>>))
L_delta_5 == Data(<<" ">> \o DeltaObj(<<"5">>))
L_delta_null == Data(<<" ">> \o DeltaObj(<<"n", "u", "l", "l">>))

\* the lines a server may send in the single-call specification
WireLines ==
    { L_blank, L_event, BadBytes, L_truncated, L_number, L_emptyobj,
      L_delta_empty, L_delta_a, L_delta_bc, L_delta_5, L_delta_null }

\* the lines a server may send to each of two interleaved calls
PairLines == { L_delta_a, L_delta_bc }

\* ----------------------------------------------------------- line handling

Skip == [r |-> "skip"]
Chunk(s) == [r |-> "delta", chunk |-> s]
LineRaises(exc) == [r |-> "raise", exc |-> exc]

\* ParseLine without the except clause: an undecodable payload raises
ParseLine_NoExcept(line) ==
    IF line.s = <<>> THEN Skip
    ELSE IF ~line.utf8 THEN LineRaises("UnicodeDecodeError")
    ELSE IF ~StartsWith(line.s, DataPrefix) THEN Skip
    ELSE LET data == JsonLoads(DropFirst(line.s, 5))
         IN  IF ~data.ok THEN LineRaises("JSONDecodeError")
             ELSE IF data.v.t # "obj" THEN LineRaises("AttributeError")
             ELSE LET delta == DictGet(data.v, DeltaKey)
                  IN  IF ~Truthy(delta) THEN Skip
                      ELSE IF delta.t # "str" THEN LineRaises("TypeError")
                      ELSE Chunk(delta.s)

\* One pass of the body of "for line in response.iter_lines()" up to the
\* append: what the line contributes.  These statements stand in
\* stream_message and in the two loops of send_message for stream=True.
ParseLine(line) ==
    IF line.s = <<>> THEN Skip                                \* if line:
    ELSE IF ~line.utf8 THEN LineRaises("UnicodeDecodeError")  \* line.decode('utf-8')
    ELSE IF ~StartsWith(line.s, DataPrefix) THEN Skip         \* line.startswith("data:")
    ELSE LET data == JsonLoads(DropFirst(line.s, 5))          \* json.loads(line[5:])
         IN  IF ~data.ok THEN Skip                            \* except json.JSONDecodeError: continue
             ELSE IF data.v.t # "obj" THEN LineRaises("AttributeError")   \* data.get
             ELSE LET delta == DictGet(data.v, DeltaKey)
                  IN  IF ~Truthy(delta) THEN Skip             \* if data.get("delta"):
                      ELSE IF delta.t # "str" THEN LineRaises("TypeError")  \* full_content += chunk
                      ELSE Chunk(delta.s)

\* CollectLine slicing one character too many off the line
CollectLine_SliceSix(line) ==
    IF line.s = <<>> THEN Skip
    ELSE IF ~line.utf8 THEN LineRaises("UnicodeDecodeError")
    ELSE IF ~StartsWith(line.s, DataPrefix) THEN Skip
    ELSE LET data == JsonLoads(DropFirst(line.s, 6))
         IN  IF ~data.ok THEN Skip
             ELSE IF data.v.t # "obj" THEN LineRaises("AttributeError")
             ELSE LET delta == DictGet(data.v, DeltaKey)
                  IN  IF ~Truthy(delta) THEN Skip
                      ELSE IF delta.t # "str" THEN LineRaises("TypeError")
                      ELSE Chunk(delta.s)

\* One pass of the two loops of send_message that collect the text without
\* showing it (stream=False, with and without a file): they append
\* data["delta"] without naming it chunk.
CollectLine(line) ==
    IF line.s = <<>> THEN Skip                                \* if line:
    ELSE IF ~line.utf8 THEN LineRaises("UnicodeDecodeError")  \* line.decode('utf-8')
    ELSE IF ~StartsWith(line.s, DataPrefix) THEN Skip         \* line.startswith("data:")
    ELSE LET data == JsonLoads(DropFirst(line.s, 5))          \* json.loads(line[5:])
         IN  IF ~data.ok THEN Skip                            \* except json.JSONDecodeError: continue
             ELSE IF data.v.t # "obj" THEN LineRaises("AttributeError")   \* data.get
             ELSE LET delta == DictGet(data.v, DeltaKey)
                  IN  IF ~Truthy(delta) THEN Skip             \* if data.get("delta"):
                      ELSE IF delta.t # "str" THEN LineRaises("TypeError")  \* full_content += data["delta"]
                      ELSE Chunk(delta.s)

\* ------------------------------------------------------------------- HTTP

Absent == "<absent>"
\* a falsy conversation id (None or "")
NoId == ""
ConvIds == {"c1", "c2"}

Sys == [source |-> "system-start", content |-> <<"S", "### System Rules", "r">>]
Prov == [source |-> "provider", content |-> <<"h", "i">>]
User == [source |-> "user", content |-> <<"y", "o">>]
MsgLists == { <<>>, <<Sys>>, <<Sys, Prov>>, <<Sys, User, Prov>> }

\* Response bodies.  t = "text": not JSON; "nonobj": JSON that is no object;
\* "obj": a JSON object, with the members the client reads.
Body(t, error, conv, has_msgs, msgs) ==
    [t |-> t, error |-> error, conv |-> conv, has_msgs |-> has_msgs, msgs |-> msgs]
TextBody == Body("text", Absent, Absent, FALSE, <<>>)
NonObjBody == Body("nonobj", Absent, Absent, FALSE, <<>>)
ErrBody(e) == Body("obj", e, Absent, FALSE, <<>>)
ConvBody(id) == Body("obj", Absent, id, FALSE, <<>>)
MsgsBody(m) == Body("obj", Absent, Absent, TRUE, m)
NoBody == Body("none", Absent, Absent, FALSE, <<>>)

\* the bodies of error responses, of answers to create-conversation, and of
\* answers to list-messages; ErrBody(Absent) is the object {}
ErrorBodies == {TextBody, NonObjBody, ErrBody("boom")}
CreateBodies == {TextBody, NonObjBody, ErrBody(Absent)} \cup {ConvBody(id) : id \in ConvIds \cup {NoId}}
ListBodies == {TextBody, NonObjBody, ErrBody(Absent)} \cup {MsgsBody(m) : m \in MsgLists}

\* the status codes a server answers with: success, a 3xx that requests
\* hands back as it is (no redirect to follow), and errors
OkStatuses == {200, 304}
ErrorStatuses == {400, 401, 500}

\* What the server (or the network) does with one request: the connection
\* fails, or a response arrives.
Failed == [t |-> "fail", status |-> 0, body |-> NoBody]
Resp(status, body) == [t |-> "resp", status |-> status, body |-> body]
ErrorAnswers == {Failed} \cup {Resp(st, b) : st \in ErrorStatuses, b \in ErrorBodies}
CreateAnswers == ErrorAnswers \cup {Resp(st, b) : st \in OkStatuses, b \in CreateBodies}
ListAnswers == ErrorAnswers \cup {Resp(st, b) : st \in OkStatuses, b \in ListBodies}
\* the answers to a streaming POST: the body of a response that is no error
\* is read line by line afterwards
StreamAnswers == ErrorAnswers \cup {Resp(st, NoBody) : st \in OkStatuses}

\* ---------------------------------------------------------------- outcomes

NoOutcome == [kind |-> "none", exc |-> "", status_code |-> 0, response |-> NoBody, text |-> <<>>]
Return(text) == [kind |-> "return", exc |-> "", status_code |-> 0, response |-> NoBody, text |-> text]
\* an exception without status code and response (both None)
Raise(exc) == [kind |-> "raise", exc |-> exc, status_code |-> 0, response |-> NoBody, text |-> <<>>]
RaiseAPI(status, data) ==
    [kind |-> "raise", exc |-> "PlaylabAPIError", status_code |-> status, response |-> data, text |-> <<>>]

\* requests' Response.raise_for_status: HTTPError for 4xx and 5xx
RaiseForStatus(status) == status >= 400 /\ status < 600

\* error_data of _handle_api_error: the decoded body, {"error": text} when
\* the body is not JSON
ErrorData(body) == IF body.t = "text" THEN ErrBody("raw text") ELSE body

_handle_api_error(resp) ==
    LET error_data == ErrorData(resp.body)
    IN  IF error_data.t # "obj" THEN Raise("AttributeError")      \* error_data.get
        ELSE IF resp.status = 401 THEN Raise("PlaylabAuthenticationError")
        ELSE IF resp.status = 400 THEN Raise("PlaylabValidationError")
        ELSE RaiseAPI(resp.status, error_data)

\* RequestError with the failure swallowed: the call goes on as after a success
RequestError_Swallowed(ans) == NoOutcome

\* The try/except around a request: the outcome when the request does not
\* succeed, NoOutcome when it does.
RequestError(ans) ==
    IF ans.t = "fail" THEN Raise("PlaylabAPIError")
    ELSE IF RaiseForStatus(ans.status) THEN _handle_api_error(ans)
    ELSE NoOutcome

\* -------------------------------------------------------------------- URLs

\* A URL is its origin and the segments of its path.
BASE_URL == [origin |-> "https://www.playlab.ai", path |-> <<"api", "v1">>]

\* An endpoint is written with a leading slash.
Endpoint(segs) == [lead |-> TRUE, segs |-> segs]
EndpointLStrip(e) == [e EXCEPT !.lead = FALSE]

ConversationsEndpoint(pid) == Endpoint(<<"projects", pid, "conversations">>)
MessagesEndpoint(pid, cid) == Endpoint(<<"projects", pid, "conversations", cid, "messages">>)

\* f"{self.BASE_URL}/{endpoint}": a leading slash left on the endpoint gives
\* an empty segment (a double slash)
FormatUrl(base, e) ==
    [origin |-> base.origin,
     path |-> base.path \o (IF e.lead THEN <<"">> ELSE <<>>) \o e.segs]

\* urllib.parse.urljoin(base, ref) for a path reference: a reference with a
\* leading slash replaces the whole path of the base; one without replaces
\* the last segment of the base path.
UrlJoin(base, e) ==
    [origin |-> base.origin,
     path |-> IF e.lead THEN e.segs
              ELSE SubSeq(base.path, 1, Len(base.path) - 1) \o e.segs]

\* url of _make_request, and of the three requests.post of send_message
MakeRequestUrl(e) == FormatUrl(BASE_URL, EndpointLStrip(e))
\* url of stream_message
StreamMessageUrl(e) == UrlJoin(BASE_URL, e)

Req(method, url) == [method |-> method, url |-> url]

\* self.headers as __init__ builds them from the API key
Headers(key) == [Authorization |-> <<"Bearer", key>>, ContentType |-> "application/json"]
\* no client object, no headers
NoHeaders == [Authorization |-> <<>>, ContentType |-> ""]

\* ------------------------------------------------------------------ state

Clients == {1, 2}

VARIABLES
    constructed,      \* c -> whether PlaylabApp.__init__ has returned for c
    api_key,          \* c -> self.api_key ("" before construction)
    project_id,       \* c -> self.project_id
    verbose,          \* c -> self.verbose
    headers,          \* c -> self.headers
    conversation_id,  \* c -> self.conversation_id (NoId: None or "")
    pc,               \* c -> "idle"; "reading": inside a loop over iter_lines;
                      \*      "done": the operation has ended, outcome says how
    op,               \* c -> the operation running, or the last one run
    requests,         \* c -> the HTTP requests the operation has issued, in order
    answers,          \* c -> what came back for each of them, in the same order
    body_state,       \* c -> the streamed response body: "none", "open",
                      \*      "exhausted" (iter_lines ended) or "failed" (it raised)
    lines,            \* c -> the lines the running call has taken from the transport
    full_content,     \* c -> the local full_content of the running call
    sink_calls,       \* c -> the arguments on_chunk was called with, in order
    sink_raised,      \* c -> the class of the exception the last on_chunk call
                      \*      that raised has raised, "" if none has
    printed,          \* c -> what the operation has displayed, in order
    outcome           \* c -> how the operation ended: a return value or an exception

vars ==
    << constructed, api_key, project_id, verbose, headers, conversation_id, pc, op,
       requests, answers, body_state, lines, full_content, sink_calls, sink_raised,
       printed,
       outcome >>

\* An operation and its arguments: on_chunk is whether a sink was given,
\* stream the stream flag, file "none" (no file_path), "missing"
\* (os.path.exists is false) or "exists", id the conversation id passed or
\* used.  vars_valid is whether every instruction variable passed to
\* create_conversation has an allowed type; key and pid are the API key and the
\* project id __init__ ends up with ("" when neither the argument nor the
\* environment gives one).
Op(name, on_chunk, stream, file, id) ==
    [name |-> name, on_chunk |-> on_chunk, stream |-> stream, file |-> file, id |-> id,
     vars_valid |-> TRUE, key |-> "", pid |-> ""]
PlainOp(name, id) == Op(name, FALSE, FALSE, "none", id)
NoOp == PlainOp("none", NoId)

\* a display event: how |-> "chunk" is print(chunk, end=""), "message" is
\* _display_message(text).  The fixed decorations ("You:", "AI:", new
\* lines) are left out.
Shown(how, text) == [how |-> how, text |-> text]

Init ==
    /\ constructed = [c \in Clients |-> FALSE]
    /\ api_key = [c \in Clients |-> ""]
    /\ project_id = [c \in Clients |-> ""]
    /\ verbose = [c \in Clients |-> FALSE]
    /\ headers = [c \in Clients |-> NoHeaders]
    /\ conversation_id = [c \in Clients |-> NoId]
    /\ pc = [c \in Clients |-> "idle"]
    /\ op = [c \in Clients |-> NoOp]
    /\ requests = [c \in Clients |-> <<>>]
    /\ answers = [c \in Clients |-> <<>>]
    /\ body_state = [c \in Clients |-> "none"]
    /\ lines = [c \in Clients |-> <<>>]
    /\ full_content = [c \in Clients |-> <<>>]
    /\ sink_calls = [c \in Clients |-> <<>>]
    /\ sink_raised = [c \in Clients |-> ""]
    /\ printed = [c \in Clients |-> <<>>]
    /\ outcome = [c \in Clients |-> NoOutcome]

\* ------------------------------------------------- the non-streaming calls

\* the result of a helper call: how it ended, the requests it issued (each
\* with its answer), and the value it returned (a body, or a list of messages)
Result(out, reqs, body, msgs) == [out |-> out, reqs |-> reqs, body |-> body, msgs |-> msgs]
Exchange(method, url, ans) == <<[req |-> Req(method, url), ans |-> ans]>>
RECURSIVE RequestsOf(_)
RequestsOf(xs) == IF xs = <<>> THEN <<>> ELSE <<Head(xs).req>> \o RequestsOf(Tail(xs))
RECURSIVE AnswersOf(_)
AnswersOf(xs) == IF xs = <<>> THEN <<>> ELSE <<Head(xs).ans>> \o AnswersOf(Tail(xs))

\* create_conversation; vars_valid: every instruction variable is a str, int,
\* float or bool
create_conversation(pid, vars_valid, ans) ==
    LET reqs == Exchange("POST", MakeRequestUrl(ConversationsEndpoint(pid)), ans)
        err == RequestError(ans)
    IN  IF ~vars_valid THEN Result(Raise("PlaylabValidationError"), <<>>, NoBody, <<>>)
        ELSE IF err.kind # "none" THEN Result(err, reqs, NoBody, <<>>)
        ELSE IF ans.body.t = "text" THEN Result(Raise("JSONDecodeError"), reqs, NoBody, <<>>)
        ELSE Result(Return(<<>>), reqs, ans.body, <<>>)

\* ConversationIdOf reading a key the answer does not have
ConversationIdOf_WrongKey(body) ==
    IF body.t # "obj" THEN [out |-> Raise("TypeError"), id |-> NoId]
    ELSE [out |-> Raise("KeyError"), id |-> NoId]

\* create_conversation()["conversation"]["id"]
ConversationIdOf(body) ==
    IF body.t # "obj" THEN [out |-> Raise("TypeError"), id |-> NoId]
    ELSE IF body.conv = Absent THEN [out |-> Raise("KeyError"), id |-> NoId]
    ELSE [out |-> Return(<<>>), id |-> body.conv]

list_messages(pid, cid, ans) ==
    LET reqs == Exchange("GET", MakeRequestUrl(MessagesEndpoint(pid, cid)), ans)
        err == RequestError(ans)
    IN  IF cid = NoId THEN Result(Raise("ValueError"), <<>>, NoBody, <<>>)
        ELSE IF err.kind # "none" THEN Result(err, reqs, NoBody, <<>>)
        ELSE IF ans.body.t = "text" THEN Result(Raise("JSONDecodeError"), reqs, NoBody, <<>>)
        ELSE IF ans.body.t # "obj" THEN Result(Raise("TypeError"), reqs, NoBody, <<>>)
        ELSE IF ~ans.body.has_msgs THEN Result(Raise("KeyError"), reqs, NoBody, <<>>)
        ELSE Result(Return(<<>>), reqs, ans.body, ans.body.msgs)

\* except PlaylabAPIError as e: raise PlaylabAPIError(f"...: {str(e)}")
Rewrap(out) ==
    IF out.kind = "raise" /\ out.exc = "PlaylabAPIError" THEN Raise("PlaylabAPIError") ELSE out

\* the introduction shown by __init__ and reset_chat
IntroShown(messages, verb) ==
    IF messages # <<>> /\ verb /\ Len(messages) >= 2 /\ messages[2].source = "provider"
    THEN <<Shown("message", messages[2].content)>>
    ELSE <<>>

\* the history shown by load_conversation: messages[1:]
RECURSIVE HistoryShown(_)
HistoryShown(messages) ==
    IF messages = <<>> THEN <<>>
    ELSE <<Shown("message", Head(messages).content)>> \o HistoryShown(Tail(messages))

RulesMarker == "### System Rules"
\* content.split("### System Rules")[0]
BeforeRules(content) ==
    LET i == IndexFrom(content, RulesMarker, 1)
    IN  IF i = 0 THEN content ELSE SubSeq(content, 1, i - 1)

\* The opening of a conversation shared by __init__ and reset_chat:
\* self.conversation_id = self.create_conversation()["conversation"]["id"],
\* then messages = self.list_messages() and the introduction.
\* cid is the new value of self.conversation_id.
OpenConversation(pid, old_cid, verb, a1, a2) ==
    LET cr == create_conversation(pid, TRUE, a1)
        id == ConversationIdOf(cr.body)
        ls == list_messages(pid, id.id, a2)
    IN  IF cr.out.kind # "return" THEN [out |-> cr.out, reqs |-> cr.reqs, cid |-> old_cid, shown |-> <<>>]
        ELSE IF id.out.kind # "return" THEN [out |-> id.out, reqs |-> cr.reqs, cid |-> old_cid, shown |-> <<>>]
        ELSE IF ls.out.kind # "return"
             THEN [out |-> ls.out, reqs |-> cr.reqs \o ls.reqs, cid |-> id.id, shown |-> <<>>]
        ELSE [out |-> Return(<<>>), reqs |-> cr.reqs \o ls.reqs, cid |-> id.id,
              shown |-> IntroShown(ls.msgs, verb)]

\* PlaylabApp(api_key, project_id, verbose): the checks of the key and of the
\* project id, then the opening of a conversation
PlaylabApp(key, pid, verb, a1, a2) ==
    LET oc == OpenConversation(pid, NoId, verb, a1, a2)
    IN  IF key = ""
        THEN [out |-> Raise("PlaylabAuthenticationError"), reqs |-> <<>>, cid |-> NoId, shown |-> <<>>]
        ELSE IF pid = ""
        THEN [out |-> Raise("PlaylabValidationError"), reqs |-> <<>>, cid |-> NoId, shown |-> <<>>]
        ELSE IF oc.out.kind # "return"
        THEN [out |-> oc.out, reqs |-> oc.reqs, cid |-> NoId, shown |-> <<>>]
        ELSE oc

reset_chat(pid, old_cid, verb, a1, a2) ==
    LET oc == OpenConversation(pid, old_cid, verb, a1, a2)
    IN  [oc EXCEPT !.out = Rewrap(oc.out)]

\* load_conversation(conversation_id): a is the answer to the list-messages
\* request, if one is issued
load_conversation(pid, old_cid, id, verb, a) ==
    LET ls == list_messages(pid, id, a)
    IN  IF id = NoId
        THEN [out |-> Raise("PlaylabValidationError"), reqs |-> <<>>, cid |-> old_cid, shown |-> <<>>]
        ELSE IF ~verb
        THEN [out |-> Return(<<>>), reqs |-> <<>>, cid |-> id, shown |-> <<>>]
        ELSE IF ls.out.kind # "return"
        THEN [out |-> Rewrap(ls.out), reqs |-> ls.reqs, cid |-> id, shown |-> <<>>]
        ELSE [out |-> Return(<<>>), reqs |-> ls.reqs, cid |-> id,
              shown |-> IF ls.msgs = <<>> THEN <<>> ELSE HistoryShown(Tail(ls.msgs))]

\* AfterCreate storing the id of the conversation just created
AfterCreate_StoresId(cid, body) ==
    IF body.t = "obj" /\ body.conv # Absent THEN body.conv ELSE cid

\* self.conversation_id after create_conversation has run: the method returns
\* the decoded answer and assigns nothing
AfterCreate(cid, body) == cid

\* the state in which an operation that does not read a stream ends
Complete(c, o, reqs, out, shown, cid) ==
    /\ op' = [op EXCEPT ![c] = o]
    /\ requests' = [requests EXCEPT ![c] = RequestsOf(reqs)]
    /\ answers' = [answers EXCEPT ![c] = AnswersOf(reqs)]
    /\ body_state' = [body_state EXCEPT ![c] = "none"]
    /\ outcome' = [outcome EXCEPT ![c] = out]
    /\ printed' = [printed EXCEPT ![c] = shown]
    /\ conversation_id' = [conversation_id EXCEPT ![c] = cid]
    /\ lines' = [lines EXCEPT ![c] = <<>>]
    /\ full_content' = [full_content EXCEPT ![c] = <<>>]
    /\ sink_calls' = [sink_calls EXCEPT ![c] = <<>>]
    /\ sink_raised' = [sink_raised EXCEPT ![c] = ""]
    /\ pc' = [pc EXCEPT ![c] = "done"]

\* The caller has the result (or the exception): the locals of the call are
\* gone, and the client is ready for the next operation.
ReturnToCaller(c) ==
    /\ pc[c] = "done"
    /\ pc' = [pc EXCEPT ![c] = "idle"]
    /\ op' = [op EXCEPT ![c] = NoOp]
    /\ requests' = [requests EXCEPT ![c] = <<>>]
    /\ answers' = [answers EXCEPT ![c] = <<>>]
    /\ body_state' = [body_state EXCEPT ![c] = "none"]
    /\ lines' = [lines EXCEPT ![c] = <<>>]
    /\ full_content' = [full_content EXCEPT ![c] = <<>>]
    /\ sink_calls' = [sink_calls EXCEPT ![c] = <<>>]
    /\ sink_raised' = [sink_raised EXCEPT ![c] = ""]
    /\ printed' = [printed EXCEPT ![c] = <<>>]
    /\ outcome' = [outcome EXCEPT ![c] = NoOutcome]
    /\ UNCHANGED <<constructed, api_key, project_id, verbose, headers, conversation_id>>

CanStart(c) == constructed[c] /\ pc[c] = "idle"

\* what no operation on a constructed client assigns
Started(c) == UNCHANGED <<constructed, api_key, project_id, verbose, headers>>

\* PlaylabApp(api_key, project_id, verbose); key and pid are the values after
\* the environment has been consulted
Construct(c) ==
    /\ ~constructed[c] /\ pc[c] = "idle"
    /\ \E key \in {"", "k"}, pid \in {"", "p"}, verb \in BOOLEAN, a1 \in CreateAnswers, a2 \in ListAnswers :
        LET r == PlaylabApp(key, pid, verb, a1, a2)
            ok == r.out.kind = "return"
        IN  /\ Complete(c, [PlainOp("__init__", NoId) EXCEPT !.key = key, !.pid = pid],
                        r.reqs, r.out, r.shown, r.cid)
            /\ constructed' = [constructed EXCEPT ![c] = ok]
            /\ api_key' = [api_key EXCEPT ![c] = IF ok THEN key ELSE @]
            /\ project_id' = [project_id EXCEPT ![c] = IF ok THEN pid ELSE @]
            /\ verbose' = [verbose EXCEPT ![c] = IF ok THEN verb ELSE @]
            /\ headers' = [headers EXCEPT ![c] = IF ok THEN Headers(key) ELSE @]

CreateConversation(c) ==
    /\ CanStart(c)
    /\ \E vars_valid \in BOOLEAN, a \in CreateAnswers :
        LET cr == create_conversation(project_id[c], vars_valid, a)
        IN  Complete(c, [PlainOp("create_conversation", conversation_id[c])
                            EXCEPT !.vars_valid = vars_valid],
                     cr.reqs, cr.out, <<>>, AfterCreate(conversation_id[c], cr.body))
    /\ Started(c)

ListMessages(c) ==
    /\ CanStart(c)
    /\ \E a \in ListAnswers :
        LET ls == list_messages(project_id[c], conversation_id[c], a)
        IN  Complete(c, PlainOp("list_messages", conversation_id[c]),
                     ls.reqs, ls.out, <<>>, conversation_id[c])
    /\ Started(c)

LoadConversation(c) ==
    /\ CanStart(c)
    /\ \E id \in ConvIds \cup {NoId}, a \in ListAnswers :
        LET r == load_conversation(project_id[c], conversation_id[c], id, verbose[c], a)
        IN  Complete(c, PlainOp("load_conversation", id), r.reqs, r.out, r.shown, r.cid)
    /\ Started(c)

ResetChat(c) ==
    /\ CanStart(c)
    /\ \E a1 \in CreateAnswers, a2 \in ListAnswers :
        LET r == reset_chat(project_id[c], conversation_id[c], verbose[c], a1, a2)
        IN  Complete(c, PlainOp("reset_chat", conversation_id[c]), r.reqs, r.out, r.shown, r.cid)
    /\ Started(c)

DisplaySystemPrompt(c) ==
    /\ CanStart(c)
    /\ \E a \in ListAnswers :
        LET ls == list_messages(project_id[c], conversation_id[c], a)
            o == PlainOp("display_system_prompt", conversation_id[c])
        IN  IF conversation_id[c] = NoId
            THEN Complete(c, o, <<>>, Raise("PlaylabValidationError"), <<>>, conversation_id[c])
            ELSE IF ls.out.kind # "return"
            THEN Complete(c, o, ls.reqs, Rewrap(ls.out), <<>>, conversation_id[c])
            ELSE Complete(c, o, ls.reqs, Return(<<>>),
                          IF ls.msgs # <<>> /\ ls.msgs[1].source = "system-start"
                          THEN <<Shown("message", BeforeRules(ls.msgs[1].content))>>
                          ELSE <<>>,
                          conversation_id[c])
    /\ Started(c)

\* ----------------------------------------------------- the streaming calls

\* The start of a call that reads a streamed body: the checks, the POST, and
\* raise_for_status.  A response that is no error leaves the call inside its
\* loop over response.iter_lines(), with full_content = "".
StartStream(c, o, invalid, url, ans) ==
    LET err == RequestError(ans)
    IN  /\ op' = [op EXCEPT ![c] = o]
        /\ lines' = [lines EXCEPT ![c] = <<>>]
        /\ full_content' = [full_content EXCEPT ![c] = <<>>]
        /\ sink_calls' = [sink_calls EXCEPT ![c] = <<>>]
        /\ sink_raised' = [sink_raised EXCEPT ![c] = ""]
        /\ printed' = [printed EXCEPT ![c] = <<>>]
        /\ UNCHANGED conversation_id
        /\ IF invalid
           THEN /\ requests' = [requests EXCEPT ![c] = <<>>]
                /\ answers' = [answers EXCEPT ![c] = <<>>]
                /\ body_state' = [body_state EXCEPT ![c] = "none"]
                /\ outcome' = [outcome EXCEPT ![c] = Raise("PlaylabValidationError")]
                /\ pc' = [pc EXCEPT ![c] = "done"]
           ELSE /\ requests' = [requests EXCEPT ![c] = <<Req("POST", url)>>]
                /\ answers' = [answers EXCEPT ![c] = <<ans>>]
                /\ body_state' = [body_state EXCEPT ![c] = IF err.kind = "none" THEN "open" ELSE "none"]
                /\ outcome' = [outcome EXCEPT ![c] = err]
                /\ pc' = [pc EXCEPT ![c] = IF err.kind = "none" THEN "reading" ELSE "done"]

\* SendMessageInvalid without the check of the file path
SendMessageInvalid_NoFileCheck(cid, file) == cid = NoId

\* the two checks at the head of send_message: no conversation, or a
\* file_path that does not exist
SendMessageInvalid(cid, file) == cid = NoId \/ file = "missing"

\* send_message(message, file_path, use_form, stream)
SendMessage(c) ==
    /\ CanStart(c)
    /\ \E file \in {"none", "missing", "exists"}, stream \in BOOLEAN, ans \in StreamAnswers :
        StartStream(c, Op("send_message", FALSE, stream, file, conversation_id[c]),
                    SendMessageInvalid(conversation_id[c], file),
                    MakeRequestUrl(MessagesEndpoint(project_id[c], conversation_id[c])),
                    ans)
    /\ Started(c)

\* stream_message(message, on_chunk, use_form)
StreamMessage(c) ==
    /\ CanStart(c)
    /\ \E on_chunk \in BOOLEAN, ans \in StreamAnswers :
        StartStream(c, Op("stream_message", on_chunk, TRUE, "none", conversation_id[c]),
                    conversation_id[c] = NoId,
                    StreamMessageUrl(MessagesEndpoint(project_id[c], conversation_id[c])),
                    ans)
    /\ Started(c)

\* What a call of on_chunk does: it returns, or it raises an exception of one
\* of the classes the handlers around the call tell apart.
SinkBehaviours == {"returns", "JSONDecodeError", "RequestException", "Exception"}

\* CallsSink of a loop that never passes a chunk on
CallsSink_Never(o) == FALSE

\* whether the running call passes each chunk to on_chunk
CallsSink(o) == o.name = "stream_message" /\ o.on_chunk
\* whether the running call prints each chunk as it arrives
PrintsChunks(o, verb) == o.name = "send_message" /\ o.stream /\ verb

\* Accumulate with the operands swapped
Accumulate_Prepend(content, chunk) == chunk \o content

\* full_content += chunk
Accumulate(content, chunk) == content \o chunk

\* SinkArgument passing the whole text so far instead of the chunk
SinkArgument_Accumulated(content, chunk) == content

\* on_chunk(chunk): what the sink is called with, given the text accumulated
\* so far (this chunk included) and the chunk
SinkArgument(content, chunk) == chunk

\* AssignLocal on an accumulator that all clients share
AssignLocal_Shared(locals, c, val) == [d \in DOMAIN locals |-> val]

\* full_content is a local variable of the call: an assignment to it
\* changes the text of the call of client c and of no other
AssignLocal(locals, c, val) == [locals EXCEPT ![c] = val]

\* OnTransportFailure handing back what has arrived so far
OnTransportFailure_ReturnsPartial(content) == Return(content)

\* the except clause when iter_lines raises: raise PlaylabAPIError(...);
\* content is the text accumulated so far
OnTransportFailure(content) == Raise("PlaylabAPIError")

\* what the streaming loops and the collecting loops make of each line a
\* server may send
StreamingPass == [line \in WireLines |-> ParseLine(line)]
CollectingPass == [line \in WireLines |-> CollectLine(line)]

\* what the loop of the running call makes of a line
LinePass(o, line) ==
    IF o.name = "send_message" /\ ~o.stream THEN CollectingPass[line] ELSE StreamingPass[line]

\* One pass of the loop: the transport yields one more line.  sink is what
\* on_chunk does if this pass calls it.
ReadLine(c, alphabet, maxl) ==
    /\ pc[c] = "reading"
    /\ Len(lines[c]) < maxl
    /\ \E line \in alphabet :
      \E sink \in IF LinePass(op[c], line).r = "delta" /\ CallsSink(op[c])
                  THEN SinkBehaviours ELSE {"returns"} :
        LET p == LinePass(op[c], line)
            called == p.r = "delta" /\ CallsSink(op[c])
            \* the exception that leaves the loop, "" if none does:
            \* except json.JSONDecodeError: continue
            exc == IF p.r = "raise" THEN p.exc
                   ELSE IF called /\ sink \in {"RequestException", "Exception"} THEN sink
                   ELSE ""
        IN  /\ lines' = [lines EXCEPT ![c] = Append(@, line)]
            /\ full_content' = AssignLocal(full_content, c,
                    IF p.r = "delta" THEN Accumulate(full_content[c], p.chunk)
                    ELSE full_content[c])
            /\ sink_calls' = [sink_calls EXCEPT ![c] =
                    IF called
                    THEN Append(@, SinkArgument(Accumulate(full_content[c], p.chunk), p.chunk))
                    ELSE @]
            /\ sink_raised' = [sink_raised EXCEPT ![c] =
                    IF called /\ sink # "returns" THEN sink ELSE @]
            /\ printed' = [printed EXCEPT ![c] =
                    IF p.r = "delta" /\ PrintsChunks(op[c], verbose[c])
                    THEN Append(@, Shown("chunk", p.chunk)) ELSE @]
            \* except requests.exceptions.RequestException as e: ... raise PlaylabAPIError
            /\ outcome' = [outcome EXCEPT ![c] =
                    IF exc = "" THEN @
                    ELSE IF exc = "RequestException" THEN Raise("PlaylabAPIError")
                    ELSE Raise(exc)]
            /\ pc' = [pc EXCEPT ![c] = IF exc = "" THEN "reading" ELSE "done"]
    /\ UNCHANGED <<constructed, api_key, project_id, verbose, headers, conversation_id, op,
                   requests, answers, body_state>>

\* whether the call shows the whole text once the body is drained
DisplaysAtEnd(o, verb) == o.name = "send_message" /\ ~o.stream /\ verb

\* The line sequence is exhausted: the loop ends and the call returns.
EndOfStream(c) ==
    /\ pc[c] = "reading"
    /\ outcome' = [outcome EXCEPT ![c] = Return(full_content[c])]
    /\ printed' = [printed EXCEPT ![c] =
            IF DisplaysAtEnd(op[c], verbose[c])
            THEN Append(@, Shown("message", full_content[c])) ELSE @]
    /\ pc' = [pc EXCEPT ![c] = "done"]
    /\ body_state' = [body_state EXCEPT ![c] = "exhausted"]
    /\ UNCHANGED <<constructed, api_key, project_id, verbose, headers, conversation_id, op,
                   requests, answers, lines, full_content, sink_calls, sink_raised>>

\* iter_lines raises a requests exception (the connection dropped, a chunk
\* was malformed): the except clause turns it into PlaylabAPIError.
TransportFailure(c) ==
    /\ pc[c] = "reading"
    /\ outcome' = [outcome EXCEPT ![c] = OnTransportFailure(full_content[c])]
    /\ pc' = [pc EXCEPT ![c] = "done"]
    /\ body_state' = [body_state EXCEPT ![c] = "failed"]
    /\ UNCHANGED <<constructed, api_key, project_id, verbose, headers, conversation_id, op,
                   requests, answers, lines, full_content, sink_calls, sink_raised,
                   printed>>

\* ---------------------------------------------------------- specifications

\* one client, every operation, every kind of line
Next ==
    \E c \in {1} :
        \/ Construct(c)
        \/ CreateConversation(c)
        \/ ListMessages(c)
        \/ LoadConversation(c)
        \/ ResetChat(c)
        \/ DisplaySystemPrompt(c)
        \/ SendMessage(c)
        \/ StreamMessage(c)
        \/ ReadLine(c, WireLines, MaxLines)
        \/ EndOfStream(c)
        \/ TransportFailure(c)
        \/ ReturnToCaller(c)

Spec == Init /\ [][Next]_vars

\* Two clients, already constructed on two conversations, each running
\* stream_message with a sink of its own; their line reads interleave.
InitPair ==
    /\ constructed = [c \in Clients |-> TRUE]
    /\ api_key = [c \in Clients |-> "k"]
    /\ project_id = [c \in Clients |-> "p"]
    /\ verbose = [c \in Clients |-> TRUE]
    /\ headers = [c \in Clients |-> Headers("k")]
    /\ conversation_id = [c \in Clients |-> IF c = 1 THEN "c1" ELSE "c2"]
    /\ pc = [c \in Clients |-> "idle"]
    /\ op = [c \in Clients |-> NoOp]
    /\ requests = [c \in Clients |-> <<>>]
    /\ answers = [c \in Clients |-> <<>>]
    /\ body_state = [c \in Clients |-> "none"]
    /\ lines = [c \in Clients |-> <<>>]
    /\ full_content = [c \in Clients |-> <<>>]
    /\ sink_calls = [c \in Clients |-> <<>>]
    /\ sink_raised = [c \in Clients |-> ""]
    /\ printed = [c \in Clients |-> <<>>]
    /\ outcome = [c \in Clients |-> NoOutcome]

NextPair ==
    \E c \in Clients :
        \/ StreamMessage(c)
        \/ ReadLine(c, PairLines, MaxPairLines)
        \/ EndOfStream(c)
        \/ TransportFailure(c)
        \/ ReturnToCaller(c)

SpecPair == InitPair /\ [][NextPair]_vars

\* ------------------------------------------------------------- properties

\* What the specification says a line carries: a delta, when the line starts
\* with "data:", the rest after those 5 characters decodes as a JSON object,
\* and the object's delta is a non-empty string.
HasDelta(line) ==
    /\ line.utf8
    /\ StartsWith(line.s, DataPrefix)
    /\ LET d == JsonLoads(DropFirst(line.s, 5))
       IN  /\ d.ok
           /\ d.v.t = "obj"
           /\ DeltaKey \in d.v.keys
           /\ d.v.val.t = "str"
           /\ d.v.val.s # <<>>

DeltaOf(line) == JsonLoads(DropFirst(line.s, 5)).v.val.s

\* the delta of each line a server may send, as a sequence of one element,
\* empty for a line without one
LineDeltas == [line \in WireLines |-> IF HasDelta(line) THEN <<DeltaOf(line)>> ELSE <<>>]

\* the deltas of a sequence of lines, in order
RECURSIVE DeltaList(_)
DeltaList(ls) ==
    IF ls = <<>> THEN <<>> ELSE LineDeltas[Head(ls)] \o DeltaList(Tail(ls))

RECURSIVE Concat(_)
Concat(ss) == IF ss = <<>> THEN <<>> ELSE Head(ss) \o Concat(Tail(ss))

\* a text line that carries nothing: blank, not a data line, or a data line
\* whose payload is undecodable
IsNoise(line) ==
    /\ line.utf8
    /\ \/ line.s = <<>>
       \/ ~StartsWith(line.s, DataPrefix)
       \/ ~JsonLoads(DropFirst(line.s, 5)).ok

IsStreaming(c) == op[c].name \in {"send_message", "stream_message"}
Returned(c) == pc[c] = "done" /\ outcome[c].kind = "return"
Raised(c, exc) == pc[c] = "done" /\ outcome[c].kind = "raise" /\ outcome[c].exc = exc

\* the line a step of client c takes from the transport
TakesLine(c) == pc[c] = "reading" /\ Len(lines'[c]) = Len(lines[c]) + 1
NewLine(c) == lines'[c][Len(lines'[c])]

\* C1: the text a streaming call returns (stream_message, and send_message
\* in each of its modes) is the concatenation, in input order, of the deltas
\* of the lines it read: none dropped, duplicated or reordered.
C1_ReturnedTextIsConcatOfDeltas ==
    \A c \in Clients :
        IsStreaming(c) /\ Returned(c) => outcome[c].text = Concat(DeltaList(lines[c]))

C1_Witness ==
    \E c \in Clients :
        /\ op[c].name = "send_message" /\ ~op[c].stream /\ Returned(c)
        /\ lines[c] = <<L_delta_a, L_emptyobj, L_delta_bc>>
        /\ outcome[c].text = <<"a", "b", "c">>

\* C2: a step that reads a blank line, a line not starting with "data:", or
\* a data line with an undecodable payload leaves the accumulated text as it
\* was, raises nothing and stays in the loop; and a data line read after such
\* a line still appends its delta.
C2_NoiseLinesAreIgnored ==
    [][\A c \in Clients :
          /\ (TakesLine(c) /\ IsNoise(NewLine(c))) =>
                /\ full_content'[c] = full_content[c]
                /\ sink_calls'[c] = sink_calls[c]
                /\ outcome'[c] = outcome[c]
                /\ pc'[c] = "reading"
          /\ (TakesLine(c) /\ HasDelta(NewLine(c))
                 /\ \E i \in 1..Len(lines[c]) : IsNoise(lines[c][i])) =>
                full_content'[c] = full_content[c] \o DeltaOf(NewLine(c))]_vars

C2_Witness ==
    \E c \in Clients :
        /\ IsStreaming(c) /\ Returned(c)
        /\ lines[c] = <<L_blank, L_truncated, L_delta_a>>
        /\ outcome[c].text = <<"a">>

\* C3: no line makes the line parser raise: a streaming call never ends with
\* an exception raised while a line is handled, and what it has accumulated
\* is the deltas of the lines read.
C3_LineParserNeverRaises ==
    \A c \in Clients :
        IsStreaming(c) /\ pc[c] = "done" /\ lines[c] # <<>> =>
            /\ ~(outcome[c].kind = "raise"
                 /\ outcome[c].exc \in {"AttributeError", "TypeError", "UnicodeDecodeError"})
            /\ full_content[c] = Concat(DeltaList(lines[c]))

\* C4: when stream_message with a sink returns, the sink has been called once
\* per delta, in arrival order, each time with that delta, and the arguments
\* concatenated are the returned text.
C4_SinkCalledOncePerDelta ==
    \A c \in Clients :
        op[c].name = "stream_message" /\ op[c].on_chunk /\ Returned(c) =>
            /\ sink_calls[c] = DeltaList(lines[c])
            /\ Concat(sink_calls[c]) = outcome[c].text

C4_Witness ==
    \E c \in Clients :
        /\ op[c].name = "stream_message" /\ op[c].on_chunk /\ Returned(c)
        /\ lines[c] = <<L_delta_a, L_event, L_delta_bc>>
        /\ sink_calls[c] = << <<"a">>, <<"b", "c">> >>

\* C5: once the transport has failed while the body was being read, the call
\* has ended by raising PlaylabAPIError; it has not returned the text
\* accumulated so far.
C5_TransportFailureRaises ==
    \A c \in Clients :
        body_state[c] = "failed" => Raised(c, "PlaylabAPIError")

C5_Witness ==
    \E c \in Clients :
        /\ body_state[c] = "failed"
        /\ op[c].name = "send_message"
        /\ full_content[c] = <<"a", "b", "c">>
        /\ Raised(c, "PlaylabAPIError")

\* the URL the specification gives for sending a message
MessagesUrl(pid, cid) ==
    [origin |-> BASE_URL.origin,
     path |-> BASE_URL.path \o <<"projects", pid, "conversations", cid, "messages">>]

\* C6: every message-sending operation POSTs to the base URL followed by
\* /projects/{project_id}/conversations/{conversation_id}/messages.
C6_AllSendsPostToMessagesUrl ==
    \A c \in Clients :
        IsStreaming(c) /\ requests[c] # <<>> =>
            requests[c][1] = Req("POST", MessagesUrl(project_id[c], conversation_id[c]))

Is2xx(status) == status >= 200 /\ status < 300

ErrorFor(status) ==
    IF status = 401 THEN "PlaylabAuthenticationError"
    ELSE IF status = 400 THEN "PlaylabValidationError"
    ELSE "PlaylabAPIError"

\* C7: an operation that got a non-2xx response has ended by raising
\* PlaylabAuthenticationError for 401, PlaylabValidationError for 400 and
\* PlaylabAPIError for any other status; it has not returned normally.
C7_Non2xxRaisesTypedError ==
    \A c \in Clients :
        pc[c] = "done" =>
            \A i \in 1..Len(answers[c]) :
                answers[c][i].t = "resp" /\ ~Is2xx(answers[c][i].status) =>
                    Raised(c, ErrorFor(answers[c][i].status))

\* C8: a PlaylabAPIError that reaches the caller because the server answered
\* with a non-2xx status other than 400 and 401 carries that status code and
\* the error body of the response.
C8_APIErrorCarriesStatusAndBody ==
    \A c \in Clients :
        LET n == Len(answers[c])
        IN  (/\ n > 0
             /\ answers[c][n].t = "resp"
             /\ ~Is2xx(answers[c][n].status)
             /\ answers[c][n].status \notin {400, 401}
             /\ Raised(c, "PlaylabAPIError")) =>
                /\ outcome[c].status_code = answers[c][n].status
                /\ outcome[c].response = ErrorData(answers[c][n].body)

\* C9: send_message, stream_message, list_messages and display_system_prompt
\* called with no conversation id set, and load_conversation called with an
\* empty id, end with PlaylabValidationError.
C9_NoConversationIsValidationError ==
    \A c \in Clients :
        (/\ pc[c] = "done"
         /\ op[c].name \in {"send_message", "stream_message", "list_messages",
                            "display_system_prompt", "load_conversation"}
         /\ op[c].id = NoId) =>
            Raised(c, "PlaylabValidationError")

\* C10: with the line reads of two calls on two clients interleaved in any
\* order, the text each call has accumulated and the arguments its sink has
\* received are at every moment the deltas of its own lines, and so is the
\* text it returns.
C10_CallsAreIsolated ==
    \A c \in Clients :
        body_state[c] # "none" =>
            /\ full_content[c] = Concat(DeltaList(lines[c]))
            /\ op[c].on_chunk => sink_calls[c] = DeltaList(lines[c])
            /\ Returned(c) => outcome[c].text = Concat(DeltaList(lines[c]))

C10_Witness ==
    /\ Returned(1) /\ Returned(2)
    /\ op[1].on_chunk /\ op[2].on_chunk
    /\ outcome[1].text = <<"a", "b", "c">>
    /\ outcome[2].text = <<"b", "c", "a">>

\* the answer to a request is a failure: no response, or a status that
\* raise_for_status raises for
RequestFailed(ans) == ans.t = "fail" \/ RaiseForStatus(ans.status)

\* a streaming call whose input the checks at its head reject
RejectedAtHead(o) == o.id = NoId \/ (o.name = "send_message" /\ o.file = "missing")

\* C11: no retry and no local recovery.  A call of send_message or
\* stream_message that gets past its input checks issues exactly one HTTP
\* request (one that does not issues none), and from the moment a request or
\* a body read has failed, or an exception has been raised, the call issues
\* no further request and takes no further line.
C11_OneRequestNoRetry ==
    [][\A c \in Clients :
          /\ (op'[c].name \in {"send_message", "stream_message"}) =>
                Len(requests'[c]) = IF RejectedAtHead(op'[c]) THEN 0 ELSE 1
          /\ (/\ IsStreaming(c)
              /\ \/ \E i \in 1..Len(answers[c]) : RequestFailed(answers[c][i])
                 \/ body_state[c] = "failed"
                 \/ outcome[c].kind = "raise") =>
                /\ Len(requests'[c]) <= Len(requests[c])
                /\ Len(lines'[c]) <= Len(lines[c])
                /\ pc[c] = "done"]_vars

C11_Witness ==
    \E c \in Clients :
        /\ op[c].name = "stream_message"
        /\ Len(requests[c]) = 1
        /\ answers[c] = <<Failed>>
        /\ lines[c] = <<>>
        /\ Raised(c, "PlaylabAPIError")

\* the URL the specification gives for creating a conversation
ConversationsUrl(pid) ==
    [origin |-> BASE_URL.origin, path |-> BASE_URL.path \o <<"projects", pid, "conversations">>]

\* the create-conversation request was answered with a conversation id
CreatedConversation(ans) ==
    ~RequestFailed(ans) /\ ans.body.t = "obj" /\ ans.body.conv \notin {Absent, NoId}

\* C12: construction without an API key ends with PlaylabAuthenticationError,
\* and with a key but without a project id with PlaylabValidationError, in
\* both cases with no request issued.  With both, the first request is the
\* create-conversation POST, a second request is the list-messages GET for the
\* id the create answer carries and is issued whenever the create answer
\* carries one, and there is no third; when construction succeeds both have
\* been issued and conversation_id is the id of the create answer.
C12_ConstructionOpensOneConversation ==
    \A c \in Clients :
        pc[c] = "done" /\ op[c].name = "__init__" =>
            LET n == Len(requests[c])
            IN  /\ op[c].key = "" => Raised(c, "PlaylabAuthenticationError") /\ n = 0
                /\ op[c].key # "" /\ op[c].pid = "" => Raised(c, "PlaylabValidationError") /\ n = 0
                /\ op[c].key # "" /\ op[c].pid # "" =>
                    /\ n \in {1, 2}
                    /\ requests[c][1] = Req("POST", ConversationsUrl(op[c].pid))
                    /\ n = 2 <=> CreatedConversation(answers[c][1])
                    /\ n = 2 => requests[c][2] =
                                    Req("GET", MessagesUrl(op[c].pid, answers[c][1].body.conv))
                    /\ Returned(c) =>
                        /\ n = 2
                        /\ constructed[c]
                        /\ conversation_id[c] = answers[c][1].body.conv

C12_Witness ==
    \E c \in Clients :
        /\ op[c].name = "__init__" /\ Returned(c)
        /\ requests[c] = << Req("POST", ConversationsUrl("p")), Req("GET", MessagesUrl("p", "c2")) >>
        /\ conversation_id[c] = "c2"

\* what a loop returns for a sequence of lines when nothing interrupts it:
\* collect chooses the collecting loop (stream=False) or the streaming one
RECURSIVE LoopRun(_, _, _)
LoopRun(collect, ls, content) ==
    IF ls = <<>> THEN [exc |-> "", text |-> content]
    ELSE LET p == IF collect THEN CollectingPass[Head(ls)] ELSE StreamingPass[Head(ls)]
         IN  IF p.r = "raise" THEN [exc |-> p.exc, text |-> content]
             ELSE LoopRun(collect, Tail(ls),
                          IF p.r = "delta" THEN Accumulate(content, p.chunk) ELSE content)

\* C13: the text send_message(stream=False) returns for its lines is the
\* text the streaming loop of send_message(stream=True) and stream_message
\* returns for the same lines, and the text a streaming call returns is the
\* text the collecting loop of send_message(stream=False) returns for them;
\* and send_message with stream=False has displayed nothing while it
\* reads, and when it returns it has displayed the whole text once if verbose
\* is on and nothing if it is off.
C13_ModesReturnTheSameText ==
    \A c \in Clients :
        IsStreaming(c) /\ body_state[c] # "none" =>
            /\ Returned(c) =>
                LoopRun(~(op[c].name = "send_message" /\ ~op[c].stream), lines[c], <<>>)
                    = [exc |-> "", text |-> outcome[c].text]
            /\ op[c].name = "send_message" /\ ~op[c].stream =>
                /\ pc[c] = "reading" => printed[c] = <<>>
                /\ Returned(c) =>
                    printed[c] = IF verbose[c] THEN <<Shown("message", outcome[c].text)>> ELSE <<>>

C13_Witness ==
    \E c \in Clients :
        /\ op[c].name = "send_message" /\ ~op[c].stream /\ verbose[c] /\ Returned(c)
        /\ lines[c] = <<L_delta_bc, L_truncated, L_delta_a>>
        /\ printed[c] = <<Shown("message", <<"b", "c", "a">>)>>

\* two runs end alike: the same exception or both a return, and the same
\* conversation id on the client
SameResult(r1, r2) ==
    /\ r1.out.kind = r2.out.kind
    /\ r1.out.exc = r2.out.exc
    /\ r1.cid = r2.cid

\* C14: verbosity never changes whether an operation fails.  For the
\* operations whose code reads self.verbose (construction, reset_chat and
\* load_conversation), with the arguments of the call that has just run and
\* for every behaviour of the server, the run with verbose on and the run with
\* verbose off end alike.
C14_VerbosityNeverChangesOutcome ==
    \A c \in Clients :
        pc[c] = "done" =>
            /\ op[c].name = "load_conversation" =>
                \A a \in ListAnswers :
                    SameResult(load_conversation(project_id[c], conversation_id[c], op[c].id, TRUE, a),
                               load_conversation(project_id[c], conversation_id[c], op[c].id, FALSE, a))
            /\ op[c].name = "reset_chat" =>
                \A a1 \in CreateAnswers, a2 \in ListAnswers :
                    SameResult(reset_chat(project_id[c], op[c].id, TRUE, a1, a2),
                               reset_chat(project_id[c], op[c].id, FALSE, a1, a2))
            /\ op[c].name = "__init__" =>
                \A a1 \in CreateAnswers, a2 \in ListAnswers :
                    SameResult(PlaylabApp(op[c].key, op[c].pid, TRUE, a1, a2),
                               PlaylabApp(op[c].key, op[c].pid, FALSE, a1, a2))

\* the texts of the chunks printed, in order
RECURSIVE ChunksShown(_)
ChunksShown(ps) ==
    IF ps = <<>> THEN <<>>
    ELSE (IF Head(ps).how = "chunk" THEN <<Head(ps).text>> ELSE <<>>) \o ChunksShown(Tail(ps))

\* C15: in a streaming call with verbose on and without a sink
\* (send_message with stream=True, stream_message without on_chunk), at every
\* moment of the loop the deltas of the lines read so far have all been
\* printed, in order: each is printed before the next line is taken.
C15_DeltasAreDisplayedAtOnce ==
    \A c \in Clients :
        (/\ verbose[c]
         /\ body_state[c] # "none"
         /\ \/ op[c].name = "send_message" /\ op[c].stream
            \/ op[c].name = "stream_message" /\ ~op[c].on_chunk) =>
            ChunksShown(printed[c]) = DeltaList(lines[c])

\* C16: while stream_message with a sink is in its loop (and when it has
\* ended), the arguments the sink has been called with, concatenated, are the
\* text accumulated, and there is one call per delta read: no call is held
\* back until after a later line is taken.
C16_SinkIsNeverBehind ==
    \A c \in Clients :
        op[c].name = "stream_message" /\ op[c].on_chunk /\ body_state[c] # "none" =>
            /\ Concat(sink_calls[c]) = full_content[c]
            /\ Len(sink_calls[c]) = Len(DeltaList(lines[c]))

C16_Witness ==
    \E c \in Clients :
        /\ op[c].name = "stream_message" /\ op[c].on_chunk /\ pc[c] = "reading"
        /\ lines[c] = <<L_delta_bc, L_blank>>
        /\ sink_calls[c] = << <<"b", "c">> >>
        /\ full_content[c] = <<"b", "c">>

\* a data line whose payload is a JSON object without a delta key, or with
\* the empty string as delta
NoDeltaLine(line) ==
    /\ line.utf8
    /\ StartsWith(line.s, DataPrefix)
    /\ LET d == JsonLoads(DropFirst(line.s, 5))
       IN  /\ d.ok
           /\ d.v.t = "obj"
           /\ \/ DeltaKey \notin d.v.keys
              \/ d.v.val.t = "str" /\ d.v.val.s = <<>>

\* C17: a step that reads a data line whose object has no delta key, or an
\* empty delta, leaves the accumulated text, the sink's calls and the display
\* as they were and stays in the loop; and the sink is never called with the
\* empty string.
C17_EmptyDeltaIsNoEvent ==
    [][\A c \in Clients :
          /\ (TakesLine(c) /\ NoDeltaLine(NewLine(c))) =>
                /\ full_content'[c] = full_content[c]
                /\ sink_calls'[c] = sink_calls[c]
                /\ printed'[c] = printed[c]
                /\ outcome'[c] = outcome[c]
                /\ pc'[c] = "reading"
          /\ \A i \in 1..Len(sink_calls'[c]) : sink_calls'[c][i] # <<>>]_vars

C17_Witness ==
    \E c \in Clients :
        /\ op[c].name = "stream_message" /\ op[c].on_chunk /\ Returned(c)
        /\ lines[c] = <<L_emptyobj, L_delta_empty, L_delta_a>>
        /\ sink_calls[c] = << <<"a">> >>
        /\ outcome[c].text = <<"a">>

\* C18: a streaming call (here one without a sink) whose request succeeded
\* has ended only if the line sequence was exhausted or the transport failed:
\* no line ends it.
C18_OnlyTheTransportEndsACall ==
    \A c \in Clients :
        (/\ IsStreaming(c) /\ ~op[c].on_chunk
         /\ pc[c] = "done"
         /\ requests[c] # <<>>
         /\ ~RequestFailed(answers[c][1])) =>
            body_state[c] \in {"exhausted", "failed"}

\* the arguments of the call are ones the operation must reject before it
\* issues a request; cid is self.conversation_id when the call starts
InvalidInput(o, cid) ==
    \/ o.name = "send_message" /\ (cid = NoId \/ o.file = "missing")
    \/ o.name = "stream_message" /\ cid = NoId
    \/ o.name = "load_conversation" /\ o.id = NoId
    \/ o.name = "create_conversation" /\ ~o.vars_valid

\* C19: a call of send_message without a conversation or with a file path
\* that does not exist, of stream_message without a conversation, of
\* load_conversation with an empty id, or of create_conversation with an
\* instruction variable of a wrong type ends at once with
\* PlaylabValidationError, has issued no request, and leaves conversation_id
\* as it was.
C19_ValidationPrecedesTheNetwork ==
    [][\A c \in Clients :
          (pc[c] = "idle" /\ pc'[c] # "idle" /\ InvalidInput(op'[c], conversation_id[c])) =>
                /\ pc'[c] = "done"
                /\ outcome'[c] = Raise("PlaylabValidationError")
                /\ requests'[c] = <<>>
                /\ conversation_id'[c] = conversation_id[c]]_vars

C19_Witness ==
    \E c \in Clients :
        /\ op[c].name = "send_message" /\ op[c].file = "missing"
        /\ conversation_id[c] = "c1"
        /\ requests[c] = <<>>
        /\ Raised(c, "PlaylabValidationError")

\* the operations that are to leave the session as it is
FrameOps ==
    {"send_message", "stream_message", "list_messages", "create_conversation",
     "display_system_prompt"}

\* C20: no step of send_message, stream_message, list_messages,
\* create_conversation or display_system_prompt, from its start to its return
\* or its exception, changes conversation_id, project_id, api_key or the
\* stored headers.
C20_OnlySwitchesChangeTheSession ==
    [][\A c \in Clients :
          (op[c].name \in FrameOps \/ op'[c].name \in FrameOps) =>
                /\ conversation_id'[c] = conversation_id[c]
                /\ project_id'[c] = project_id[c]
                /\ api_key'[c] = api_key[c]
                /\ headers'[c] = headers[c]]_vars

C20_Witness ==
    \E c \in Clients :
        /\ op[c].name = "create_conversation" /\ Returned(c)
        /\ answers[c][1].body.conv = "c2"
        /\ conversation_id[c] = "c1"
        /\ headers[c] = Headers("k")

\* C21: a call of load_conversation or reset_chat that ends with an
\* exception, wherever it was raised, leaves conversation_id with the value
\* it had when the call started.
C21_FailedSwitchKeepsTheConversation ==
    [][\A c \in Clients :
          (/\ pc[c] = "idle" /\ pc'[c] = "done"
           /\ op'[c].name \in {"load_conversation", "reset_chat"}
           /\ outcome'[c].kind = "raise") =>
                conversation_id'[c] = conversation_id[c]]_vars

\* C22: once a call of the sink has raised an exception, of whatever class,
\* the streaming call is over and has ended with an exception: it is not in
\* its loop any more, so it takes no further line and calls the sink no more,
\* and it has not returned text.
C22_SinkExceptionStopsTheCall ==
    \A c \in Clients :
        sink_raised[c] # "" => pc[c] = "done" /\ outcome[c].kind = "raise"

====
